---------------------------- MODULE Spec2Model ----------------------------
(***************************************************************************)
(* Model of the heading-hierarchy analysis of seo-mcp                      *)
(* (src/src/services/heading-analyzer.ts) and of its composite scorer      *)
(* (src/src/services/scoring.ts).                                          *)
(*                                                                         *)
(* One analyzeHeadings(url, targetKeyword) request is modelled.  The       *)
(* request suspends once (await httpGet); afterwards the handler scans the *)
(* heading elements of the parsed document in document order (one Scan     *)
(* step per element, the .each callback) and then runs countByLevel,       *)
(* buildHeadingTree, identifyIssues and checkKeywordPresence synchronously *)
(* (the Analyze step).                                                     *)
(*                                                                         *)
(* Strings whose content the code inspects (heading text, keyword) are     *)
(* sequences of one-character strings; a template string is the sequence   *)
(* of its pieces.  A HeadingNode is a heap cell: nodes[id] holds the node  *)
(* allocated for the id-th observation and children are lists of ids.      *)
(*                                                                         *)
(* The scorer has a specification of its own, SpecScore: a PageAnalysis is *)
(* drawn, and calculateSeoScore is applied to it, by a direct call or by   *)
(* analyzePage, which stores the result in the analysis.                   *)
(***************************************************************************)
EXTENDS Integers, Sequences, FiniteSets, TLC

VARIABLES
    pc,               \* "scan" while the .each loop runs, "done" after return
    targetKeyword,    \* <<>> = undefined, <<kw>> = the string kw was passed
    flatList,         \* FlatHeading[] built by the scan
    order,            \* the scan's running counter (let order = 0)
    counts,           \* result: countByLevel(flatList)
    nodes,            \* result: the HeadingNode objects, by allocation index
    headingTree,      \* result: the forest roots (ids into nodes)
    keywordPresence,  \* result: <<>> = undefined, <<[inH1, inH2, count]>>
    issues,           \* result: SeoIssue[]
    document,         \* the heading elements of the page read so far, as parsed
    summary,          \* <<>> or <<h>>: the HeadingSummary analyzePage made of the page
    analysis,         \* the PageAnalysis given to the scorer (<<>>: none)
    returned,         \* <<>> or <<s>>: the SeoScore the last call returned
    calls,            \* number of calculateSeoScore calls made so far
    limiter,          \* the RateLimiter object (<<>>: none built)
    clock,            \* Date.now(), in milliseconds since the limiter was built
    callers,          \* the acquire() calls: where each one stands
    objects,          \* the HeadingNode objects allocated by concurrent requests
    requests          \* the concurrent requests: input, position and result

vars == <<pc, targetKeyword, flatList, order, counts, nodes, headingTree,
          keywordPresence, issues, document, summary, analysis, returned, calls,
          limiter, clock, callers, objects, requests>>

\* the state of the scorer's caller
scoreVars == <<analysis, returned, calls>>

\* the state of the rate limiter and of its callers
limiterVars == <<limiter, clock, callers>>

\* the state of the requests that run concurrently
requestVars == <<objects, requests>>

\* no rate limiter is built
NoLimiter == limiter = <<>> /\ clock = 0 /\ callers = <<>>

\* no concurrent request is made
NoRequests == objects = <<>> /\ requests = <<>>

\* the state of an analyzeHeadings request
headingVars == <<pc, targetKeyword, flatList, order, counts, nodes, headingTree,
                 keywordPresence, issues, document, summary>>

---------------------------------------------------------------------------
(* Bounds of the model                                                     *)

\* longest document (number of heading elements) that is scanned
MaxLen == 4

\* the heading tags matched by the selector 'h1, h2, h3, h4, h5, h6'
Tags == {"h1", "h2", "h3", "h4", "h5", "h6"}

\* heading elements a document is made of: <<tagName, text content>>.
\* h1 and h2 (the tags checkKeywordPresence singles out) come with and
\* without the keyword, each deeper tag with one text; raw texts carry
\* leading, trailing and repeated whitespace.
Elements ==
    { <<"H1", <<>>                          >>,
      <<"H1", <<" ", "b", " ", "\t", "A">>  >>,
      <<"H1", <<"c">>                       >>,
      <<"H2", <<" ", "\t">>                 >>,
      <<"H2", <<"b", " ", " ", "A", " ">>   >>,
      <<"H3", <<"b", "\t", "A">>            >>,
      <<"H4", <<"c", " ">>                  >>,
      <<"H5", <<" ">>                       >>,
      <<"H6", <<"c">>                       >> }

\* values of the optional targetKeyword argument: undefined, "" and "A"
Keywords == { <<>>, << <<>> >>, << <<"A">> >> }

---------------------------------------------------------------------------
(* String primitives of the JavaScript runtime, on character sequences     *)

IsSpace(c) == c \in {" ", "\t"}

LowerChar(c) == CASE c = "A" -> "a" [] c = "B" -> "b" [] c = "C" -> "c" [] OTHER -> c

toLowerCase(s) == [i \in 1..Len(s) |-> LowerChar(s[i])]

\* String.prototype.includes
includes(s, sub) ==
    \E i \in 0..(Len(s) - Len(sub)) : SubSeq(s, i + 1, i + Len(sub)) = sub

RECURSIVE trimStart(_)
trimStart(s) ==
    IF Len(s) > 0 /\ IsSpace(s[1]) THEN trimStart(Tail(s)) ELSE s

RECURSIVE trimEnd(_)
trimEnd(s) ==
    IF Len(s) > 0 /\ IsSpace(s[Len(s)]) THEN trimEnd(SubSeq(s, 1, Len(s) - 1)) ELSE s

\* String.prototype.trim
trim(s) == trimEnd(trimStart(s))

\* s.replace(/\s+/g, ' '): every maximal run of whitespace becomes one space
RECURSIVE collapseWhitespace(_)
collapseWhitespace(s) ==
    IF Len(s) = 0 THEN <<>>
    ELSE IF IsSpace(s[1])
         THEN <<" ">> \o collapseWhitespace(trimStart(s))
         ELSE <<s[1]>> \o collapseWhitespace(Tail(s))

\* tagName.toLowerCase() of a heading element
tagToLowerCase(t) ==
    CASE t = "H1" -> "h1" [] t = "H2" -> "h2" [] t = "H3" -> "h3"
      [] t = "H4" -> "h4" [] t = "H5" -> "h5" [] t = "H6" -> "h6" [] OTHER -> t

\* tag.toUpperCase() of a FlatHeading tag
tagToUpperCase(t) ==
    CASE t = "h1" -> "H1" [] t = "h2" -> "H2" [] t = "h3" -> "H3"
      [] t = "h4" -> "H4" [] t = "h5" -> "H5" [] t = "h6" -> "H6" [] OTHER -> t

---------------------------------------------------------------------------
(* getHeadingLevel: parseInt(tag.charAt(1), 10)                            *)

getHeadingLevel(tag) ==
    CASE tag = "h1" -> 1 [] tag = "h2" -> 2 [] tag = "h3" -> 3
      [] tag = "h4" -> 4 [] tag = "h5" -> 5 [] tag = "h6" -> 6

---------------------------------------------------------------------------
(* buildHeadingTree                                                        *)

\* the faulty loop condition "top level > level": equal rank would nest
ShouldPopStrict(topLevel, level) == topLevel > level

\* the while condition on the stack top (line 30)
ShouldPop(topLevel, level) == topLevel >= level

RECURSIVE PopLoop(_, _, _)
PopLoop(stack, heap, level) ==
    IF Len(stack) > 0
       /\ ShouldPop(getHeadingLevel(heap[stack[Len(stack)].node].tag), level)
    THEN PopLoop(SubSeq(stack, 1, Len(stack) - 1), heap, level)
    ELSE stack

\* a single conditional pop: "if" written for "while"
PopOnce(stack, heap, level) ==
    IF Len(stack) > 0
       /\ ShouldPop(getHeadingLevel(heap[stack[Len(stack)].node].tag), level)
    THEN SubSeq(stack, 1, Len(stack) - 1)
    ELSE stack

\* the while loop of lines 30-32
PopStack(stack, heap, level) == PopLoop(stack, heap, level)

\* the bottom of the stack taken for its top
ParentBottom(stack) == stack[1].node

\* const parent = stack[stack.length - 1].node (line 37)
ParentOfTop(stack) == stack[Len(stack)].node

\* one iteration of the for loop (lines 21-43) on the builder's locals
BuildStep(st, item) ==
    LET level  == getHeadingLevel(item.tag)
        id     == Len(st.heap) + 1
        node   == [tag |-> item.tag, text |-> item.text, order |-> item.order,
                   children |-> <<>>]
        stack1 == PopStack(st.stack, st.heap, level)
        heap1  == Append(st.heap, node)
    IN  [ heap  |-> IF Len(stack1) = 0
                    THEN heap1
                    ELSE [heap1 EXCEPT ![ParentOfTop(stack1)].children = Append(@, id)],
          tree  |-> IF Len(stack1) = 0 THEN Append(st.tree, id) ELSE st.tree,
          stack |-> Append(stack1, [node |-> id, level |-> level]) ]

RECURSIVE BuildLoop(_, _)
BuildLoop(st, rest) ==
    IF Len(rest) = 0 THEN st ELSE BuildLoop(BuildStep(st, Head(rest)), Tail(rest))

\* returns [heap, tree]: the allocated nodes and the list of forest roots
buildHeadingTree(list) ==
    LET st == BuildLoop([heap |-> <<>>, tree |-> <<>>, stack |-> <<>>], list)
    IN  [heap |-> st.heap, tree |-> st.tree]

---------------------------------------------------------------------------
(* countByLevel                                                            *)

RECURSIVE CountLoop(_, _)
CountLoop(c, rest) ==
    IF Len(rest) = 0 THEN c
    ELSE LET tag == Head(rest).tag
             old == IF tag \in DOMAIN c THEN c[tag] ELSE 0
         IN  CountLoop([t \in DOMAIN c \cup {tag} |-> IF t = tag THEN old + 1 ELSE c[t]],
                       Tail(rest))

countByLevel(list) == CountLoop([t \in {} |-> 0], list)

---------------------------------------------------------------------------
(* checkKeywordPresence                                                    *)

\* a case-sensitive comparison: the heading text is not lower-cased
TextMatchesExact(text, lower) == includes(text, lower)

\* item.text.toLowerCase().includes(lower) (lines 66-67)
TextMatches(text, lower) == includes(toLowerCase(text), lower)

RECURSIVE KeywordLoop(_, _, _)
KeywordLoop(acc, rest, lower) ==
    IF Len(rest) = 0 THEN acc
    ELSE LET item == Head(rest)
             next == IF TextMatches(item.text, lower)
                     THEN [ count |-> acc.count + 1,
                            inH1  |-> IF item.tag = "h1" THEN TRUE ELSE acc.inH1,
                            inH2  |-> IF item.tag = "h2"
                                      THEN Append(acc.inH2, item.text)
                                      ELSE acc.inH2 ]
                     ELSE acc
         IN  KeywordLoop(next, Tail(rest), lower)

checkKeywordPresence(list, keyword) ==
    KeywordLoop([count |-> 0, inH1 |-> FALSE, inH2 |-> <<>>], list,
                toLowerCase(keyword))

---------------------------------------------------------------------------
(* identifyIssues                                                          *)

\* SEO_RULES.headings.maxH1Count
maxH1Count == 1

Issue(type, severity, detail) ==
    [type |-> type, severity |-> severity, detail |-> detail]

\* the second test written ">=" and not chained with "else"
\* counts['h1'] read without "|| 0": undefined is neither 0 nor above the maximum
H1CountIssuesNoDefault(cnt) ==
    IF "h1" \notin DOMAIN cnt THEN <<>>
    ELSE IF cnt["h1"] > maxH1Count
         THEN << Issue("multiple_h1", "high",
                       << "Page has ", ToString(cnt["h1"]), " H1 headings (recommended: ",
                          ToString(maxH1Count), ")" >>) >>
         ELSE <<>>

H1CountIssuesAtLeast(cnt) ==
    LET h1Count == IF "h1" \in DOMAIN cnt THEN cnt["h1"] ELSE 0
    IN  (IF h1Count = 0
         THEN << Issue("missing_h1", "critical", <<"Page is missing an H1 heading">>) >>
         ELSE <<>>)
        \o
        (IF h1Count >= maxH1Count
         THEN << Issue("multiple_h1", "high",
                       << "Page has ", ToString(h1Count), " H1 headings (recommended: ",
                          ToString(maxH1Count), ")" >>) >>
         ELSE <<>>)

\* the H1 count check (lines 80-93)
H1CountIssues(cnt) ==
    LET h1Count == IF "h1" \in DOMAIN cnt THEN cnt["h1"] ELSE 0
    IN  IF h1Count = 0
        THEN << Issue("missing_h1", "critical", <<"Page is missing an H1 heading">>) >>
        ELSE IF h1Count > maxH1Count
             THEN << Issue("multiple_h1", "high",
                           << "Page has ", ToString(h1Count), " H1 headings (recommended: ",
                              ToString(maxH1Count), ")" >>) >>
             ELSE <<>>

\* the position reported 0-based
EmptyHeadingIssueZeroBased(item) ==
    Issue("empty_heading", "medium",
          << "Empty ", tagToUpperCase(item.tag), " heading at position ",
             ToString(item.order - 1) >>)

\* the issue pushed for one empty heading (lines 97-101)
EmptyHeadingIssue(item) ==
    Issue("empty_heading", "medium",
          << "Empty ", tagToUpperCase(item.tag), " heading at position ",
             ToString(item.order) >>)

\* the empty heading check (lines 95-103)
RECURSIVE EmptyHeadingIssues(_)
EmptyHeadingIssues(rest) ==
    IF Len(rest) = 0 THEN <<>>
    ELSE (IF Len(trim(Head(rest).text)) = 0
          THEN << EmptyHeadingIssue(Head(rest)) >>
          ELSE <<>>)
         \o EmptyHeadingIssues(Tail(rest))

\* new Set(flatList.map(h => getHeadingLevel(h.tag))), as Array.from lists it:
\* the distinct levels in order of first occurrence
RECURSIVE usedLevels(_)
usedLevels(list) ==
    IF Len(list) = 0 THEN <<>>
    ELSE LET before == usedLevels(SubSeq(list, 1, Len(list) - 1))
             level  == getHeadingLevel(list[Len(list)].tag)
         IN  IF \E i \in 1..Len(before) : before[i] = level
             THEN before
             ELSE Append(before, level)

RECURSIVE InsertSorted(_, _)
InsertSorted(sorted, x) ==
    IF Len(sorted) = 0 THEN <<x>>
    ELSE IF x - Head(sorted) < 0
         THEN <<x>> \o sorted
         ELSE <<Head(sorted)>> \o InsertSorted(Tail(sorted), x)

RECURSIVE SortLoop(_, _)
SortLoop(sorted, rest) ==
    IF Len(rest) = 0 THEN sorted
    ELSE SortLoop(InsertSorted(sorted, Head(rest)), Tail(rest))

\* the sort left out: the levels stay in order of first occurrence
sortOmitted(levels) == levels

\* Array.from(usedLevels).sort((a, b) => a - b) (line 107)
sortAscending(levels) == SortLoop(<<>>, levels)

\* the issue pushed for the gap between sorted[i - 1] = lo and sorted[i] = hi
SkippedLevelIssue(lo, hi) ==
    LET skippedStart == lo + 1
        skippedEnd   == hi - 1
        skipped      == IF skippedStart = skippedEnd
                        THEN << "H", ToString(skippedStart) >>
                        ELSE << "H", ToString(skippedStart), "-H", ToString(skippedEnd) >>
    IN  Issue("skipped_level", "medium",
              << "Heading level skipped: " >> \o skipped \o
              << " (found H", ToString(lo), " followed by H", ToString(hi), ")" >>)

RECURSIVE GapLoop(_, _)
GapLoop(sorted, i) ==
    IF i > Len(sorted) THEN <<>>
    ELSE (IF sorted[i] - sorted[i - 1] > 1
          THEN << SkippedLevelIssue(sorted[i - 1], sorted[i]) >>
          ELSE <<>>)
         \o GapLoop(sorted, i + 1)

\* the skipped level check (lines 105-122)
SkippedLevelIssues(list) ==
    LET used == usedLevels(list)
    IN  IF Len(used) > 1 THEN GapLoop(sortAscending(used), 2) ELSE <<>>

\* the check made on "some heading is not an H1" instead of the first one
FirstHeadingIssuesAny(list) ==
    IF Len(list) > 0 /\ \E i \in 1..Len(list) : getHeadingLevel(list[i].tag) # 1
    THEN << Issue("no_h1_first", "medium",
                  << "First heading is ", tagToUpperCase(list[1].tag), ", expected H1" >>) >>
    ELSE <<>>

\* the first heading check (lines 124-130)
FirstHeadingIssues(list) ==
    IF Len(list) > 0 /\ getHeadingLevel(list[1].tag) # 1
    THEN << Issue("no_h1_first", "medium",
                  << "First heading is ", tagToUpperCase(list[1].tag), ", expected H1" >>) >>
    ELSE <<>>

\* the first heading check made before the empty heading check
identifyIssuesReordered(list, cnt) ==
    H1CountIssues(cnt) \o FirstHeadingIssues(list) \o EmptyHeadingIssues(list)
    \o SkippedLevelIssues(list)

identifyIssues(list, cnt) ==
    H1CountIssues(cnt) \o EmptyHeadingIssues(list) \o SkippedLevelIssues(list)
    \o FirstHeadingIssues(list)

---------------------------------------------------------------------------
(* analyzeHeadings                                                         *)

KeywordMissingIssue(keyword) ==
    Issue("keyword_missing_h1", "high",
          << "Target keyword \"" >> \o keyword \o << "\" not found in H1" >>)

\* a string is truthy unless it is undefined or empty
Truthy(optString) == Len(optString) = 1 /\ Len(optString[1]) > 0

Init ==
    /\ pc = "scan"
    /\ targetKeyword \in Keywords
    /\ flatList = <<>>
    /\ order = 0
    /\ counts = [t \in {} |-> 0]
    /\ nodes = <<>>
    /\ headingTree = <<>>
    /\ keywordPresence = <<>>
    /\ issues = <<>>
    /\ document = <<>>
    /\ summary = <<>>
    /\ analysis = <<>>
    /\ returned = <<>>
    /\ calls = 0
    /\ NoLimiter
    /\ NoRequests

\* the .each callback on the next heading element of the document
\* (lines 147-152)
Scan(el) ==
    /\ pc = "scan"
    /\ Len(flatList) < MaxLen
    /\ LET tag  == tagToLowerCase(el[1])
           text == trim(collapseWhitespace(el[2]))
       IN  /\ order' = order + 1
           /\ flatList' = Append(flatList, [tag |-> tag, text |-> text, order |-> order + 1])
    /\ document' = Append(document, el)
    /\ UNCHANGED <<pc, targetKeyword, counts, nodes, headingTree, keywordPresence, issues,
                   summary>>
    /\ UNCHANGED <<scoreVars, limiterVars, requestVars>>

\* the document has no further heading: the rest of analyzeHeadings
\* (lines 154-178)
Analyze ==
    /\ pc = "scan"
    /\ LET cnt      == countByLevel(flatList)
           built    == buildHeadingTree(flatList)
           found    == identifyIssues(flatList, cnt)
           presence == IF Truthy(targetKeyword)
                       THEN << checkKeywordPresence(flatList, targetKeyword[1]) >>
                       ELSE <<>>
       IN  /\ counts' = cnt
           /\ nodes' = built.heap
           /\ headingTree' = built.tree
           /\ keywordPresence' = presence
           /\ issues' = IF Truthy(targetKeyword) /\ Len(presence) = 1 /\ ~presence[1].inH1
                        THEN Append(found, KeywordMissingIssue(targetKeyword[1]))
                        ELSE found
    /\ pc' = "done"
    /\ UNCHANGED <<targetKeyword, flatList, order, document, summary>>
    /\ UNCHANGED <<scoreVars, limiterVars, requestVars>>

\* the non-empty trimmed texts of the h1 elements (robots-analyzer.ts
\* lines 356-361)
RECURSIVE h1TextOf(_)
h1TextOf(doc) ==
    IF doc = <<>> THEN <<>>
    ELSE (IF tagToLowerCase(Head(doc)[1]) = "h1" /\ Len(trim(Head(doc)[2])) > 0
          THEN << trim(Head(doc)[2]) >>
          ELSE <<>>)
         \o h1TextOf(Tail(doc))

\* the texts of all h1 elements, the empty ones included
RECURSIVE h1TextOfAll(_)
h1TextOfAll(doc) ==
    IF doc = <<>> THEN <<>>
    ELSE (IF tagToLowerCase(Head(doc)[1]) = "h1" THEN << trim(Head(doc)[2]) >> ELSE <<>>)
         \o h1TextOfAll(Tail(doc))

\* the summary made from a given list of h1 texts (lines 363-372)
HeadingSummaryOf(h1Text, doc) ==
    [ h1Count       |-> Len(h1Text),
      h1Text        |-> h1Text,
      totalHeadings |-> Len(doc),
      issues        |-> IF Len(h1Text) = 0
                        THEN << << "Missing H1 tag" >> >>
                        ELSE IF Len(h1Text) > maxH1Count
                             THEN << << "Multiple H1 tags found (",
                                        ToString(Len(h1Text)), ")" >> >>
                             ELSE <<>> ]

\* the summary with every h1 element counted
summarizeHeadingsAllH1(doc) == HeadingSummaryOf(h1TextOfAll(doc), doc)

\* summarizeHeadings (robots-analyzer.ts lines 355-373)
summarizeHeadings(doc) == HeadingSummaryOf(h1TextOf(doc), doc)

\* analyzePage summarises the headings of the same page
\* (robots-analyzer.ts line 456)
Summarize ==
    /\ pc = "done"
    /\ summary = <<>>
    /\ summary' = << summarizeHeadings(document) >>
    /\ UNCHANGED <<pc, targetKeyword, flatList, order, counts, nodes, headingTree,
                   keywordPresence, issues, document>>
    /\ UNCHANGED <<scoreVars, limiterVars, requestVars>>

Next ==
    \/ \E el \in Elements : Scan(el)
    \/ Analyze

Spec == Init /\ [][Next]_vars

\* the page analysed by analyzeHeadings and summarised by analyzePage
NextPage == Next \/ Summarize

SpecPage == Init /\ [][NextPage]_vars

---------------------------------------------------------------------------
(* Vocabulary of the properties                                            *)

Done == pc = "done"

\* the node built for the i-th observation of the flat list
NodeOf(i) == CHOOSE id \in 1..Len(nodes) : nodes[id].order = flatList[i].order

ObsLevel(i) == getHeadingLevel(flatList[i].tag)

NodeLevel(id) == getHeadingLevel(nodes[id].tag)

IsRoot(id) == \E k \in 1..Len(headingTree) : headingTree[k] = id

IsChildOf(id, p) == \E k \in 1..Len(nodes[p].children) : nodes[p].children[k] = id

\* the node holding id in its children, 0 for a forest root
ParentOf(id) ==
    IF IsRoot(id) THEN 0 ELSE CHOOSE p \in 1..Len(nodes) : IsChildOf(id, p)

RECURSIVE Depth(_)
Depth(id) == IF ParentOf(id) = 0 THEN 0 ELSE 1 + Depth(ParentOf(id))

RECURSIVE IsDescendantOf(_, _)
IsDescendantOf(id, a) ==
    /\ ParentOf(id) # 0
    /\ (ParentOf(id) = a \/ IsDescendantOf(ParentOf(id), a))

IssuesOfType(type) == SelectSeq(issues, LAMBDA x : x.type = type)

HasIssue(type) == Len(IssuesOfType(type)) > 0

\* number of h1 observations of the flat list
H1Observations == Cardinality({i \in 1..Len(flatList) : flatList[i].tag = "h1"})

FlatTags == [i \in 1..Len(flatList) |-> flatList[i].tag]

---------------------------------------------------------------------------
(* C1: in the forest returned by buildHeadingTree every child's level is   *)
(* strictly greater than its parent's level, every node's children are in  *)
(* ascending order, and so are the forest roots.                           *)
C1_ForestOrdered ==
    Done =>
      /\ \A p \in 1..Len(nodes) :
           LET ch == nodes[p].children
           IN  /\ \A k \in 1..Len(ch) : NodeLevel(ch[k]) > NodeLevel(p)
               /\ \A k \in 1..(Len(ch) - 1) : nodes[ch[k]].order < nodes[ch[k + 1]].order
      /\ \A k \in 1..(Len(headingTree) - 1) :
           nodes[headingTree[k]].order < nodes[headingTree[k + 1]].order

\* a forest with two roots and a node with two children
C1_Witness ==
    /\ Done
    /\ Len(headingTree) >= 2
    /\ \E p \in 1..Len(nodes) : Len(nodes[p].children) >= 2

(* C2: two adjacent observations of the same level get the same parent (or *)
(* are both roots) at the same depth; the second is never below the first. *)
C2_EqualLevelSiblings ==
    Done =>
      \A i \in 1..(Len(flatList) - 1) :
        ObsLevel(i) = ObsLevel(i + 1) =>
          /\ ParentOf(NodeOf(i)) = ParentOf(NodeOf(i + 1))
          /\ Depth(NodeOf(i)) = Depth(NodeOf(i + 1))
          /\ ~IsDescendantOf(NodeOf(i + 1), NodeOf(i))

\* two adjacent h2 under an h1, and two adjacent roots of one level
C2_Witness ==
    /\ Done
    /\ \E i \in 1..(Len(flatList) - 1) :
         /\ ObsLevel(i) = ObsLevel(i + 1)
         /\ ParentOf(NodeOf(i)) # 0
         /\ ParentOf(NodeOf(i)) = ParentOf(NodeOf(i + 1))
    /\ \E i \in 1..(Len(flatList) - 1) :
         /\ ObsLevel(i) = ObsLevel(i + 1)
         /\ IsRoot(NodeOf(i)) /\ IsRoot(NodeOf(i + 1))

(* C3: an observation is a forest root exactly when no earlier observation *)
(* has a strictly smaller level; the first observation is a root whatever  *)
(* its level, no node is invented, every h1 is a root and k h1 headings    *)
(* give at least k roots.                                                  *)
C3_RootsCharacterised ==
    Done =>
      /\ Len(nodes) = Len(flatList)
      /\ \A i \in 1..Len(flatList) :
           IsRoot(NodeOf(i)) <=> ~(\E j \in 1..(i - 1) : ObsLevel(j) < ObsLevel(i))
      /\ Len(flatList) > 0 => IsRoot(NodeOf(1))
      /\ \A i \in 1..Len(flatList) : flatList[i].tag = "h1" => IsRoot(NodeOf(i))
      /\ Len(headingTree) >= H1Observations
      /\ \A i, j \in 1..Len(flatList) :
           flatList[i].tag = "h1" /\ flatList[j].tag = "h1"
             => ~IsDescendantOf(NodeOf(i), NodeOf(j))

\* a document starting below h1, with two h1 and a nested heading
C3_Witness ==
    /\ Done
    /\ Len(flatList) > 0 /\ ObsLevel(1) = 3 /\ IsRoot(NodeOf(1))
    /\ H1Observations = 2
    /\ \E i \in 1..Len(flatList) : ~IsRoot(NodeOf(i))

(* C4: the parent of every non-root observation is the nearest preceding   *)
(* observation of strictly smaller level; h1,h2,h3,h2 gives one h1 root    *)
(* with two h2 children, the first with one h3 child, the second with none.*)
C4_NearestSmallerParent ==
    Done =>
      /\ \A i \in 1..Len(flatList) :
           ~IsRoot(NodeOf(i)) =>
             \E j \in 1..(i - 1) :
               /\ ObsLevel(j) < ObsLevel(i)
               /\ \A m \in (j + 1)..(i - 1) : ObsLevel(m) >= ObsLevel(i)
               /\ ParentOf(NodeOf(i)) = NodeOf(j)
      /\ FlatTags = <<"h1", "h2", "h3", "h2">> =>
           /\ headingTree = << NodeOf(1) >>
           /\ nodes[NodeOf(1)].children = << NodeOf(2), NodeOf(4) >>
           /\ nodes[NodeOf(2)].children = << NodeOf(3) >>
           /\ nodes[NodeOf(3)].children = <<>>
           /\ nodes[NodeOf(4)].children = <<>>

\* the analysis of h1,h2,h3,h2 has returned
C4_Witness ==
    /\ Done
    /\ FlatTags = <<"h1", "h2", "h3", "h2">>
    /\ ParentOf(NodeOf(4)) = NodeOf(1)

---------------------------------------------------------------------------
(* Vocabulary of the issue properties                                      *)

\* the k-th smallest element of a set of integers
KthSmallest(S, k) == CHOOSE i \in S : Cardinality({j \in S : j < i}) = k - 1

\* the text is empty once its surrounding whitespace is removed
IsBlank(text) == \A k \in 1..Len(text) : IsSpace(text[k])

BlankPositions == {i \in 1..Len(flatList) : IsBlank(flatList[i].text)}

LevelsUsed == {ObsLevel(i) : i \in 1..Len(flatList)}

\* the pairs of used levels that are adjacent in ascending order and more
\* than one apart
LevelGaps ==
    {g \in LevelsUsed \X LevelsUsed :
        /\ g[2] - g[1] > 1
        /\ ~(\E c \in LevelsUsed : g[1] < c /\ c < g[2])}

KthGap(k) == CHOOSE g \in LevelGaps : Cardinality({h \in LevelGaps : h[1] < g[1]}) = k - 1

\* the skipped range between the used levels a and b, as the detail names it
SkippedRange(a, b) ==
    IF b - a = 2
    THEN << "H", ToString(a + 1) >>
    ELSE << "H", ToString(a + 1), "-H", ToString(b - 1) >>

\* the place of an issue type in the detection order
GroupOf(type) ==
    CASE type \in {"missing_h1", "multiple_h1"} -> 1
      [] type = "empty_heading"                 -> 2
      [] type = "skipped_level"                 -> 3
      [] type = "no_h1_first"                   -> 4
      [] type = "keyword_missing_h1"            -> 5
      [] OTHER                                  -> 0

\* kw occurs in text when case is ignored
ContainsIgnoringCase(text, kw) ==
    \E off \in 0..(Len(text) - Len(kw)) :
        \A j \in 1..Len(kw) : LowerChar(text[off + j]) = LowerChar(kw[j])

\* the positions whose heading text contains kw, case ignored
MatchingPositions(kw) ==
    {i \in 1..Len(flatList) : ContainsIgnoringCase(flatList[i].text, kw)}

MatchingH2(kw) == {i \in MatchingPositions(kw) : flatList[i].tag = "h2"}

\* keywordPresence as specified for the keyword kw
PresenceAsClaimed(kw) ==
    /\ Len(keywordPresence) = 1
    /\ keywordPresence[1].count = Cardinality(MatchingPositions(kw))
    /\ keywordPresence[1].inH1 <=>
         \E i \in MatchingPositions(kw) : flatList[i].tag = "h1"
    /\ Len(keywordPresence[1].inH2) = Cardinality(MatchingH2(kw))
    /\ \A k \in 1..Len(keywordPresence[1].inH2) :
         keywordPresence[1].inH2[k] = flatList[KthSmallest(MatchingH2(kw), k)].text

\* the keyword_missing_h1 issue as specified for the keyword kw
KeywordIssueAsClaimed(kw) ==
    /\ Len(IssuesOfType("keyword_missing_h1")) =
         IF \E i \in MatchingPositions(kw) : flatList[i].tag = "h1" THEN 0 ELSE 1
    /\ \A k \in 1..Len(IssuesOfType("keyword_missing_h1")) :
         IssuesOfType("keyword_missing_h1")[k].severity = "high"

NoKeywordResult ==
    /\ keywordPresence = <<>>
    /\ ~HasIssue("keyword_missing_h1")

---------------------------------------------------------------------------
(* C5: exactly one missing_h1 (critical) when there is no h1 observation,  *)
(* exactly one multiple_h1 (high) when there are more than maxH1Count,     *)
(* neither when there is exactly one; never both in one issue list.        *)
C5_H1CountIssue ==
    Done =>
      LET missing  == IssuesOfType("missing_h1")
          multiple == IssuesOfType("multiple_h1")
      IN  /\ H1Observations = 0 =>
               /\ Len(missing) = 1 /\ missing[1].severity = "critical"
               /\ Len(multiple) = 0
          /\ H1Observations > maxH1Count =>
               /\ Len(multiple) = 1 /\ multiple[1].severity = "high"
               /\ Len(missing) = 0
          /\ H1Observations = 1 => Len(missing) = 0 /\ Len(multiple) = 0
          /\ ~(Len(missing) > 0 /\ Len(multiple) > 0)

\* a document with two h1 has been reported as multiple_h1
C5_Witness ==
    /\ Done
    /\ H1Observations = 2
    /\ HasIssue("multiple_h1")

(* C6: the issues are listed in the detection order: the H1 count issue,   *)
(* the empty_heading issues, the skipped_level issues, no_h1_first, and    *)
(* keyword_missing_h1 last.                                                *)
C6_IssueGroupOrder ==
    Done =>
      /\ \A k \in 1..Len(issues) : GroupOf(issues[k].type) \in 1..5
      /\ \A k \in 1..(Len(issues) - 1) :
           GroupOf(issues[k].type) <= GroupOf(issues[k + 1].type)
      /\ \A k, l \in 1..Len(issues) :
           GroupOf(issues[k].type) = GroupOf(issues[l].type)
           /\ GroupOf(issues[k].type) \in {1, 4, 5}
             => k = l

\* an issue list with an issue of each of the five groups
C6_Witness ==
    /\ Done
    /\ \A g \in 1..5 : \E k \in 1..Len(issues) : GroupOf(issues[k].type) = g

(* C7: one empty_heading (medium) issue per observation whose trimmed text *)
(* is empty, in sequence order, naming the observation's 1-based position; *)
(* a lone empty h1 gives empty_heading at position 1 and no missing_h1.    *)
C7_EmptyHeadings ==
    Done =>
      LET empty == IssuesOfType("empty_heading")
      IN  /\ Len(empty) = Cardinality(BlankPositions)
          /\ \A k \in 1..Len(empty) :
               LET i == KthSmallest(BlankPositions, k)
               IN  /\ empty[k].severity = "medium"
                   /\ empty[k].detail[Len(empty[k].detail)] = ToString(i)
          /\ (Len(flatList) = 1 /\ flatList[1].tag = "h1" /\ flatList[1].text = <<>>) =>
               /\ Len(empty) = 1
               /\ empty[1].detail[Len(empty[1].detail)] = "1"
               /\ ~HasIssue("missing_h1")

\* empty headings at positions 2 and 4 between headings with text
C7_Witness ==
    /\ Done
    /\ BlankPositions = {2, 4}
    /\ Len(IssuesOfType("empty_heading")) = 2

(* C8: one skipped_level (medium) issue per pair (a, b) of used levels     *)
(* adjacent in ascending order with b - a > 1, in ascending order of a,    *)
(* naming the skipped range and the levels a and b; none when fewer than   *)
(* two levels are used; levels {1,2,4} give one issue naming H3, levels    *)
(* {1,2,3} give none.                                                      *)
C8_SkippedLevels ==
    Done =>
      LET skipped == IssuesOfType("skipped_level")
      IN  /\ Len(skipped) = Cardinality(LevelGaps)
          /\ \A k \in 1..Len(skipped) :
               LET g == KthGap(k)
               IN  /\ skipped[k].severity = "medium"
                   /\ skipped[k].detail =
                        << "Heading level skipped: " >> \o SkippedRange(g[1], g[2]) \o
                        << " (found H", ToString(g[1]), " followed by H", ToString(g[2]), ")" >>
          /\ Cardinality(LevelsUsed) < 2 => Len(skipped) = 0
          /\ LevelsUsed = {1, 2, 4} =>
               /\ Len(skipped) = 1
               /\ SubSeq(skipped[1].detail, 2, 3) = << "H", "3" >>
               /\ Len(skipped[1].detail) = 8
          /\ LevelsUsed = {1, 2, 3} => Len(skipped) = 0

\* levels 1, 3 and 6 are used: a single skipped level and a skipped range
C8_Witness ==
    /\ Done
    /\ LevelsUsed = {1, 3, 6}
    /\ Len(IssuesOfType("skipped_level")) = 2
    /\ ObsLevel(1) = 6

(* C9: no_h1_first (medium) is emitted exactly when the sequence is not    *)
(* empty and its first observation is not an h1; a lone h2 yields both     *)
(* missing_h1 and no_h1_first.                                             *)
C9_FirstHeading ==
    Done =>
      LET first == IssuesOfType("no_h1_first")
      IN  /\ Len(first) = IF Len(flatList) > 0 /\ ObsLevel(1) # 1 THEN 1 ELSE 0
          /\ \A k \in 1..Len(first) : first[k].severity = "medium"
          /\ Len(flatList) = 0 => ~HasIssue("no_h1_first")
          /\ (Len(flatList) = 1 /\ flatList[1].tag = "h2") =>
               HasIssue("missing_h1") /\ HasIssue("no_h1_first")

\* a document whose first heading is an h2 and which has an h1 later
C9_Witness ==
    /\ Done
    /\ Len(flatList) > 1 /\ flatList[1].tag = "h2"
    /\ H1Observations > 0
    /\ HasIssue("no_h1_first")

(* C10 as stated: keyword_missing_h1 (high) is emitted exactly when a      *)
(* target keyword was supplied and no h1 text contains it, case ignored;   *)
(* without a keyword keywordPresence is absent; with one, count, inH1 and  *)
(* inH2 are those of the matching observations.                            *)
C10_KeywordAsStated ==
    Done =>
      IF targetKeyword = <<>>
      THEN NoKeywordResult
      ELSE KeywordIssueAsClaimed(targetKeyword[1]) /\ PresenceAsClaimed(targetKeyword[1])

(* C10 amended: the same, for a supplied keyword that is not the empty     *)
(* string; an empty keyword is treated as no keyword.                      *)
C10_KeywordNonEmpty ==
    Done =>
      IF targetKeyword = <<>> \/ targetKeyword = << <<>> >>
      THEN NoKeywordResult
      ELSE KeywordIssueAsClaimed(targetKeyword[1]) /\ PresenceAsClaimed(targetKeyword[1])

\* a keyword found in an h2 and in a deeper heading but in no h1
C10_Witness ==
    /\ Done
    /\ Len(targetKeyword) = 1 /\ Len(targetKeyword[1]) > 0
    /\ H1Observations > 0
    /\ HasIssue("keyword_missing_h1")
    /\ Len(keywordPresence) = 1
    /\ Len(keywordPresence[1].inH2) = 1
    /\ keywordPresence[1].count = 2

---------------------------------------------------------------------------
(* Composite scorer (src/src/services/scoring.ts)                          *)
(*                                                                         *)
(* Scores are JavaScript numbers.  Every value the scorer computes from    *)
(* integer inputs is an integer except the two quotients it rounds; those  *)
(* are kept as numerator and denominator and Math.round is applied to the  *)
(* exact quotient.  The double-precision sums of lines 166-180 round to    *)
(* the same integer as the exact quotient for every combination of         *)
(* category scores (enumerated exhaustively), so nothing is lost.          *)

\* SEO_RULES.title
titleMinLength == 30
titleMaxLength == 60
titleIdealMinLength == 50
titleIdealMaxLength == 60

\* SEO_RULES.metaDescription
metaMinLength == 70
metaMaxLength == 160
metaIdealMinLength == 150
metaIdealMaxLength == 160

\* SEO_RULES.links.maxPerPage
maxPerPage == 150

\* SEO_RULES.content
thinContentThreshold == 200
\* SEO_RULES.content.minWordCount.blogPost
minWordCountBlogPost == 300
minWordCountHomepage == 200

\* SCORE_WEIGHTS
weightTitle == 20
weightMetaDescription == 10
weightHeadings == 15
weightImages == 10
weightLinks == 10
weightCanonical == 10
weightOpenGraph == 5
weightRobots == 10
weightContent == 10

Max(a, b) == IF a >= b THEN a ELSE b

Min(a, b) == IF a <= b THEN a ELSE b

\* only the upper limit applied
clampUpperOnly(score) == Min(100, score)

\* Math.max(0, Math.min(100, score))
clamp(score) == Max(0, Min(100, score))

\* Math.floor of the quotient n / d
mathFloor(n, d) == n \div d

\* Math.round of the quotient n / d (d > 0): the nearest integer, a half
\* going up
mathRound(n, d) == (2 * n + d) \div (2 * d)

\* the thresholds compared without their end points
titleLengthScoreOpen(len) ==
    IF len > titleIdealMinLength /\ len < titleIdealMaxLength THEN 100
    ELSE IF len > titleMinLength /\ len < titleMaxLength THEN 80
    ELSE IF len > titleMaxLength THEN 50
    ELSE IF len < titleMinLength /\ len > 0 THEN 40
    ELSE 60

\* the score before the issue penalty (lines 14-25)
titleLengthScore(len) ==
    IF len >= titleIdealMinLength /\ len <= titleIdealMaxLength THEN 100
    ELSE IF len >= titleMinLength /\ len <= titleMaxLength THEN 80
    ELSE IF len > titleMaxLength THEN 50
    ELSE IF len < titleMinLength /\ len > 0 THEN 40
    ELSE 60

scoreTitleCategory(a) ==
    IF ~Truthy(a.title.text) THEN 0
    ELSE clamp(titleLengthScore(a.title.length) - Len(a.title.issues) * 10)

\* the title's thresholds left in the copied code
metaLengthScoreTitleRules(len) == titleLengthScore(len)

\* the score before the issue penalty (lines 35-46)
metaLengthScore(len) ==
    IF len >= metaIdealMinLength /\ len <= metaIdealMaxLength THEN 100
    ELSE IF len >= metaMinLength /\ len <= metaMaxLength THEN 80
    ELSE IF len > metaMaxLength THEN 50
    ELSE IF len < metaMinLength /\ len > 0 THEN 40
    ELSE 60

scoreMetaCategory(a) ==
    IF ~Truthy(a.metaDescription.text) THEN 0
    ELSE clamp(metaLengthScore(a.metaDescription.length)
               - Len(a.metaDescription.issues) * 10)

\* the H1 penalties applied from maxH1Count on
headingsPenaltyAtLeast(h) ==
    (IF h.h1Count = 0 THEN 40 ELSE IF h.h1Count >= maxH1Count THEN 20 ELSE 0)
    + (IF h.totalHeadings = 0 THEN 30 ELSE 0)

\* what lines 56-64 subtract
headingsPenalty(h) ==
    (IF h.h1Count = 0 THEN 40 ELSE IF h.h1Count > maxH1Count THEN 20 ELSE 0)
    + (IF h.totalHeadings = 0 THEN 30 ELSE 0)

scoreHeadingsCategory(a) ==
    clamp(100 - headingsPenalty(a.headings) - Len(a.headings.issues) * 10)

\* the three tiers tested one after the other, without "else"
missingAltPenaltyCumulative(missingAlt, total) ==
    (IF 2 * missingAlt > total THEN 40 ELSE 0)
    + (IF 5 * missingAlt > total THEN 20 ELSE 0)
    + (IF missingAlt > 0 THEN 10 ELSE 0)

\* what lines 75-83 subtract; missingAltRatio = missingAlt / total is
\* compared with 0.5, 0.2 and 0 (total > 0)
missingAltPenalty(missingAlt, total) ==
    IF 2 * missingAlt > total THEN 40
    ELSE IF 5 * missingAlt > total THEN 20
    ELSE IF missingAlt > 0 THEN 10
    ELSE 0

scoreImagesCategory(a) ==
    IF a.images.total = 0 THEN 100
    ELSE clamp(100 - missingAltPenalty(a.images.missingAlt, a.images.total)
               - Len(a.images.issues) * 5)

\* the maximum itself already penalised
linksPenaltyAtMax(links) ==
    LET totalLinks == links.internal + links.external
    IN  (IF links.internal = 0 THEN 20 ELSE 0)
        + (IF totalLinks >= maxPerPage THEN 15 ELSE 0)
        + (IF totalLinks = 0 THEN 30 ELSE 0)

\* what lines 93-103 subtract
linksPenalty(links) ==
    LET totalLinks == links.internal + links.external
    IN  (IF links.internal = 0 THEN 20 ELSE 0)
        + (IF totalLinks > maxPerPage THEN 15 ELSE 0)
        + (IF totalLinks = 0 THEN 30 ELSE 0)

scoreLinksCategory(a) == clamp(100 - linksPenalty(a.links))

\* the canonical score computed from the issues alone
scoreCanonicalCategoryComputed(a) == clamp(100 - Len(a.canonical.issues) * 15)

scoreCanonicalCategory(a) ==
    IF ~Truthy(a.canonical.url) THEN 30
    ELSE clamp(100 - Len(a.canonical.issues) * 15)

scoreOpenGraphCategory(a) ==
    clamp((IF Truthy(a.openGraph.title) THEN 25 ELSE 0)
          + (IF Truthy(a.openGraph.description) THEN 25 ELSE 0)
          + (IF Truthy(a.openGraph.image) THEN 25 ELSE 0)
          + (IF Truthy(a.openGraph.url) THEN 15 ELSE 0)
          + (IF Truthy(a.openGraph.type) THEN 10 ELSE 0)
          - Len(a.openGraph.issues) * 10)

\* a page that is not indexable scored 0
scoreRobotsCategoryZero(a) == IF ~a.robots.isIndexable THEN 0 ELSE 100

scoreRobotsCategory(a) == IF ~a.robots.isIndexable THEN 20 ELSE 100

\* the two word-count deductions as independent ifs
scoreContentCategoryBoth(a) ==
    IF Len(a.content) = 0 THEN 50
    ELSE clamp(100 - (IF a.content[1].wordCount < thinContentThreshold THEN 40 ELSE 0)
                   - (IF a.content[1].wordCount <= minWordCountHomepage THEN 20 ELSE 0))

\* analysis.content is <<>> (undefined) or <<c>>
scoreContentCategory(a) ==
    IF Len(a.content) = 0 THEN 50
    ELSE clamp(100 - (IF a.content[1].wordCount < thinContentThreshold THEN 40
                      ELSE IF a.content[1].wordCount < minWordCountHomepage THEN 20
                      ELSE 0))

\* the technical weight with the content weight left out
technicalWeightWithoutContent == weightCanonical + weightOpenGraph + weightRobots

\* line 165
technicalWeight == weightCanonical + weightOpenGraph + weightRobots + weightContent

\* the numerator of technicalScore (lines 166-171)
technicalScoreSum(a) ==
    scoreCanonicalCategory(a) * weightCanonical
    + scoreOpenGraphCategory(a) * weightOpenGraph
    + scoreRobotsCategory(a) * weightRobots
    + scoreContentCategory(a) * weightContent

CategoryNames == <<"title", "meta", "headings", "images", "links", "technical">>

\* the categories table once line 173 has replaced its technical entry;
\* weighted is filled in by lines 176-178 and read only by line 180
categoriesOf(a) ==
    [ title     |-> [score |-> scoreTitleCategory(a),    weight |-> weightTitle],
      meta      |-> [score |-> scoreMetaCategory(a),     weight |-> weightMetaDescription],
      headings  |-> [score |-> scoreHeadingsCategory(a), weight |-> weightHeadings],
      images    |-> [score |-> scoreImagesCategory(a),   weight |-> weightImages],
      links     |-> [score |-> scoreLinksCategory(a),    weight |-> weightLinks],
      technical |-> [score |-> mathRound(technicalScoreSum(a), technicalWeight),
                     weight |-> technicalWeight] ]

\* Object.values(categories).reduce((sum, c) => sum + c.weight, 0) (line 175)
RECURSIVE SumWeights(_, _)
SumWeights(cats, names) ==
    IF Len(names) = 0 THEN 0
    ELSE cats[Head(names)].weight + SumWeights(cats, Tail(names))

\* the numerator of the sum of line 180: each cat.weighted is
\* cat.score * cat.weight over totalWeight (line 177)
RECURSIVE SumWeighted(_, _)
SumWeighted(cats, names) ==
    IF Len(names) = 0 THEN 0
    ELSE cats[Head(names)].score * cats[Head(names)].weight
         + SumWeighted(cats, Tail(names))

\* a result that adds the score already stored in the analysis
calculateSeoScoreAccumulating(a) ==
    LET cats        == categoriesOf(a)
        totalWeight == SumWeights(cats, CategoryNames)
        weightedSum == SumWeighted(cats, CategoryNames)
        overall     == mathRound(weightedSum, totalWeight) + a.score.overall
    IN  [ overall   |-> clamp(overall),
          breakdown |-> [n \in DOMAIN cats |-> cats[n].score] ]

calculateSeoScore(a) ==
    LET cats        == categoriesOf(a)
        totalWeight == SumWeights(cats, CategoryNames)
        weightedSum == SumWeighted(cats, CategoryNames)
        overall     == mathRound(weightedSum, totalWeight)
    IN  [ overall   |-> clamp(overall),
          breakdown |-> [n \in DOMAIN cats |-> cats[n].score] ]

\* the call leaves its result in the argument's score field
argumentAfterCallStored(a) == [a EXCEPT !.score = calculateSeoScore(a)]

\* the argument object when calculateSeoScore returns: no statement of
\* lines 150-193 assigns to analysis or to an object reachable from it
argumentAfterCall(a) == a

---------------------------------------------------------------------------
(* The PageAnalysis values the scorer is applied to                        *)

\* most calculateSeoScore calls made on one PageAnalysis
MaxCalls == 2

\* a string | null field: null, the empty string, a non-empty string
Null == <<>>
EmptyString == << <<>> >>
SomeString == << <<"x">> >>

\* an issues array of n entries
IssuesOf(n) == [i \in 1..n |-> "issue"]

\* the score analyzePage puts in the analysis before calling the scorer
\* (robots-analyzer.ts line 475)
ZeroScore ==
    [ overall   |-> 0,
      breakdown |-> [title |-> 0, meta |-> 0, headings |-> 0, images |-> 0,
                     links |-> 0, technical |-> 0] ]

TextAnalysis(text, length, n) == [text |-> text, length |-> length, issues |-> IssuesOf(n)]

IssueCounts == {0, 1, 11}

\* lengths on both sides of every title threshold
TitleLengths == {0, 1, 29, 30, 49, 50, 60, 61}

Titles ==
    {TextAnalysis(SomeString, l, n) : l \in TitleLengths, n \in IssueCounts}
    \cup {TextAnalysis(t, 0, n) : t \in {Null, EmptyString}, n \in IssueCounts}

\* lengths on both sides of every meta description threshold
MetaLengths == {0, 1, 69, 70, 149, 150, 160, 161}

MetaDescriptions ==
    {TextAnalysis(SomeString, l, n) : l \in MetaLengths, n \in IssueCounts}
    \cup {TextAnalysis(t, 0, n) : t \in {Null, EmptyString}, n \in IssueCounts}

HeadingSummaries ==
    {[h1Count |-> c[1], totalHeadings |-> c[2], issues |-> IssuesOf(n)] :
        c \in {<<0, 0>>, <<0, 3>>, <<1, 1>>, <<1, 3>>, <<2, 3>>, <<3, 3>>},
        n \in IssueCounts}

\* no image; ten images of which 0, 1, 2, 3, 5, 6 or all miss their alt
ImageSummaries ==
    {[total |-> c[1], missingAlt |-> c[2], issues |-> IssuesOf(n)] :
        c \in {<<0, 0>>, <<10, 0>>, <<10, 1>>, <<10, 2>>, <<10, 3>>, <<10, 5>>,
               <<10, 6>>, <<10, 10>>, <<1, 1>>},
        n \in {0, 1, 20}}

LinkCounts == {0, 1, 75, 149, 150, 151}

LinkSummaries == {[internal |-> i, external |-> e] : i \in LinkCounts, e \in LinkCounts}

Canonicals ==
    {[url |-> u, issues |-> IssuesOf(n)] : u \in {Null, SomeString}, n \in {0, 1, 7}}

OpenGraphs ==
    {[title |-> t, description |-> d, image |-> i, url |-> u, type |-> y,
      issues |-> IssuesOf(n)] :
        t \in {Null, SomeString}, d \in {Null, SomeString}, i \in {Null, SomeString},
        u \in {Null, SomeString}, y \in {Null, SomeString}, n \in {0, 3}}

RobotsAnalyses == {[isIndexable |-> b] : b \in BOOLEAN}

Contents ==
    {<<>>} \cup {<< [wordCount |-> w] >> : w \in {0, 199, 200, 201, 1000}}

\* a page with nothing on it
WorstPage ==
    [ title |-> TextAnalysis(Null, 0, 0), metaDescription |-> TextAnalysis(Null, 0, 0),
      canonical |-> [url |-> Null, issues |-> IssuesOf(0)],
      robots |-> [isIndexable |-> FALSE],
      openGraph |-> [title |-> Null, description |-> Null, image |-> Null,
                     url |-> Null, type |-> Null, issues |-> IssuesOf(0)],
      headings |-> [h1Count |-> 0, totalHeadings |-> 0, issues |-> IssuesOf(0)],
      images |-> [total |-> 0, missingAlt |-> 0, issues |-> IssuesOf(0)],
      links |-> [internal |-> 0, external |-> 0],
      content |-> <<>>,
      score |-> ZeroScore ]

\* a page with everything in order
BestPage ==
    [ title |-> TextAnalysis(SomeString, 55, 0),
      metaDescription |-> TextAnalysis(SomeString, 155, 0),
      canonical |-> [url |-> SomeString, issues |-> IssuesOf(0)],
      robots |-> [isIndexable |-> TRUE],
      openGraph |-> [title |-> SomeString, description |-> SomeString,
                     image |-> SomeString, url |-> SomeString, type |-> SomeString,
                     issues |-> IssuesOf(0)],
      headings |-> [h1Count |-> 1, totalHeadings |-> 3, issues |-> IssuesOf(0)],
      images |-> [total |-> 10, missingAlt |-> 0, issues |-> IssuesOf(0)],
      links |-> [internal |-> 75, external |-> 1],
      content |-> << [wordCount |-> 1000] >>,
      score |-> ZeroScore ]

\* one sub-analysis taking every value, the others those of page b
OneVaried(b) ==
    {[b EXCEPT !.title = v] : v \in Titles}
    \cup {[b EXCEPT !.metaDescription = v] : v \in MetaDescriptions}
    \cup {[b EXCEPT !.headings = v] : v \in HeadingSummaries}
    \cup {[b EXCEPT !.images = v] : v \in ImageSummaries}
    \cup {[b EXCEPT !.links = v] : v \in LinkSummaries}
    \cup {[b EXCEPT !.canonical = v] : v \in Canonicals}
    \cup {[b EXCEPT !.openGraph = v] : v \in OpenGraphs}
    \cup {[b EXCEPT !.robots = v] : v \in RobotsAnalyses}
    \cup {[b EXCEPT !.content = v] : v \in Contents}

\* all sub-analyses varying together, three values each
MixedPages ==
    {[ title |-> t, metaDescription |-> m, canonical |-> c, robots |-> r,
       openGraph |-> o, headings |-> h, images |-> i, links |-> l, content |-> w,
       score |-> ZeroScore ] :
        t \in {TextAnalysis(Null, 0, 1), TextAnalysis(SomeString, 29, 1),
               TextAnalysis(SomeString, 55, 0)},
        m \in {TextAnalysis(Null, 0, 1), TextAnalysis(SomeString, 161, 1),
               TextAnalysis(SomeString, 155, 0)},
        c \in {[url |-> Null, issues |-> IssuesOf(1)],
               [url |-> SomeString, issues |-> IssuesOf(0)]},
        r \in RobotsAnalyses,
        o \in {[title |-> Null, description |-> Null, image |-> Null, url |-> Null,
                type |-> Null, issues |-> IssuesOf(3)],
               [title |-> SomeString, description |-> SomeString, image |-> Null,
                url |-> SomeString, type |-> Null, issues |-> IssuesOf(1)],
               [title |-> SomeString, description |-> SomeString, image |-> SomeString,
                url |-> SomeString, type |-> SomeString, issues |-> IssuesOf(0)]},
        h \in {[h1Count |-> 0, totalHeadings |-> 0, issues |-> IssuesOf(1)],
               [h1Count |-> 2, totalHeadings |-> 3, issues |-> IssuesOf(1)],
               [h1Count |-> 1, totalHeadings |-> 3, issues |-> IssuesOf(0)]},
        i \in {[total |-> 0, missingAlt |-> 0, issues |-> IssuesOf(0)],
               [total |-> 10, missingAlt |-> 3, issues |-> IssuesOf(1)],
               [total |-> 10, missingAlt |-> 10, issues |-> IssuesOf(20)]},
        l \in {[internal |-> 0, external |-> 0], [internal |-> 0, external |-> 151],
               [internal |-> 75, external |-> 1]},
        w \in {<<>>, << [wordCount |-> 199] >>, << [wordCount |-> 1000] >>}}

\* a page on which every category takes its lowest score
PoorestPage ==
    [ WorstPage EXCEPT
        !.canonical = [url |-> SomeString, issues |-> IssuesOf(7)],
        !.headings = [h1Count |-> 0, totalHeadings |-> 0, issues |-> IssuesOf(11)],
        !.images = [total |-> 10, missingAlt |-> 10, issues |-> IssuesOf(20)] ]

PageAnalyses ==
    OneVaried(WorstPage) \cup OneVaried(BestPage) \cup MixedPages \cup {PoorestPage}

---------------------------------------------------------------------------
(* Calls of the scorer                                                     *)

ScoreInit ==
    /\ pc = "idle"
    /\ targetKeyword = <<>>
    /\ flatList = <<>>
    /\ order = 0
    /\ counts = [t \in {} |-> 0]
    /\ nodes = <<>>
    /\ headingTree = <<>>
    /\ keywordPresence = <<>>
    /\ issues = <<>>
    /\ document = <<>>
    /\ summary = <<>>
    /\ analysis \in PageAnalyses
    /\ returned = <<>>
    /\ calls = 0
    /\ NoLimiter
    /\ NoRequests

\* a caller applies the exported calculateSeoScore to the analysis
Calculate ==
    /\ calls < MaxCalls
    /\ returned' = << calculateSeoScore(analysis) >>
    /\ analysis' = argumentAfterCall(analysis)
    /\ calls' = calls + 1
    /\ UNCHANGED <<headingVars, limiterVars, requestVars>>

\* analyzePage: partialAnalysis.score = calculateSeoScore(partialAnalysis)
\* (robots-analyzer.ts line 478)
AnalyzePageScore ==
    /\ calls < MaxCalls
    /\ LET result == calculateSeoScore(analysis)
       IN  /\ returned' = << result >>
           /\ analysis' = [argumentAfterCall(analysis) EXCEPT !.score = result]
    /\ calls' = calls + 1
    /\ UNCHANGED <<headingVars, limiterVars, requestVars>>

ScoreNext == Calculate \/ AnalyzePageScore

SpecScore == ScoreInit /\ [][ScoreNext]_vars

---------------------------------------------------------------------------
(* Requests of either kind: a heading analysis or calls of the scorer      *)

InitAll == Init \/ ScoreInit

NextAll == Next \/ (pc = "idle" /\ ScoreNext)

SpecAll == InitAll /\ [][NextAll]_vars

---------------------------------------------------------------------------
(* Vocabulary of the scoring properties                                    *)

\* a call has returned
Scored == returned # <<>>

\* the SeoScore the last call returned
Result == returned[1]

\* x brought into [0,100]
Within(x) == IF x < 0 THEN 0 ELSE IF x > 100 THEN 100 ELSE x

\* the integer nearest to n/d, a half going up: k <= n/d + 1/2 < k + 1
NearestHalfUp(n, d) ==
    CHOOSE k \in 0..200 : 2 * d * k <= 2 * n + d /\ 2 * n + d < 2 * d * (k + 1)

BreakdownNames == {"title", "meta", "headings", "images", "links", "technical"}

\* the images score before it is brought into [0,100]
RawImages(im) ==
    100 - (IF 2 * im.missingAlt > im.total THEN 40
           ELSE IF 5 * im.missingAlt > im.total THEN 20
           ELSE IF im.missingAlt > 0 THEN 10 ELSE 0)
        - 5 * Len(im.issues)

\* the six reported scores blended with weights 20, 10, 15, 10, 10, 35
BlendedSum(b) ==
    20 * b.title + 10 * b.meta + 15 * b.headings + 10 * b.images
        + 10 * b.links + 35 * b.technical

\* the four technical sub-scores with their sub-weights 10, 5, 10, 10
TechnicalSum(a) ==
    scoreCanonicalCategory(a) * 10 + scoreOpenGraphCategory(a) * 5
        + scoreRobotsCategory(a) * 10 + scoreContentCategory(a) * 10

---------------------------------------------------------------------------
(* C11: every breakdown field and overall returned by calculateSeoScore is
   an integer in [0,100]; a raw images computation that goes negative is
   reported as 0. *)
C11_ScoresInRange ==
    Scored =>
        /\ Result.overall \in 0..100
        /\ \A n \in BreakdownNames : Result.breakdown[n] \in 0..100
        /\ (analysis.images.total # 0 /\ RawImages(analysis.images) < 0)
               => Result.breakdown.images = 0

\* twenty image issues on a page with images: 100 - 20*5 and below
C11_Witness ==
    /\ Scored
    /\ analysis.images.total > 0
    /\ Len(analysis.images.issues) = 20
    /\ RawImages(analysis.images) < 0
    /\ Result.breakdown.images = 0

(* C12: overall is the clamp to [0,100] of the weighted mean of the six
   scores reported in breakdown, weights 20/10/15/10/10/35 summing to 100,
   rounded to the nearest integer with halves rounded up. *)
C12_OverallBlend ==
    Scored =>
        Result.overall = Within(NearestHalfUp(BlendedSum(Result.breakdown), 100))

\* a weighted mean that falls exactly on a half
C12_Witness ==
    /\ Scored
    /\ BlendedSum(Result.breakdown) % 100 = 50
    /\ Result.overall = (BlendedSum(Result.breakdown) + 50) \div 100

(* C13: breakdown.technical is the rounded mean of the canonical, Open
   Graph, robots and content sub-scores with weights 10, 5, 10, 10 (sum 35),
   the technical score weighs 35 in the overall blend, and the result holds
   nothing but overall and the six breakdown fields. *)
C13_TechnicalComposite ==
    Scored =>
        /\ Result.breakdown.technical = NearestHalfUp(TechnicalSum(analysis), 35)
        /\ Result.overall =
               Within(NearestHalfUp(
                   BlendedSum([Result.breakdown EXCEPT
                       !.technical = NearestHalfUp(TechnicalSum(analysis), 35)]), 100))
        /\ DOMAIN Result = {"overall", "breakdown"}
        /\ DOMAIN Result.breakdown = BreakdownNames

\* the four sub-scores differ and their mean is rounded up
C13_Witness ==
    /\ Scored
    /\ Cardinality({scoreCanonicalCategory(analysis), scoreOpenGraphCategory(analysis),
                    scoreRobotsCategory(analysis), scoreContentCategory(analysis)}) = 4
    /\ 2 * (TechnicalSum(analysis) % 35) > 35
    /\ Result.breakdown.technical = (TechnicalSum(analysis) \div 35) + 1

\* what the claims say of a title or meta description score, the length
\* thresholds being min, max and the ideal window idealMin..idealMax
LengthScoreAsClaimed(t, min, max, idealMin, idealMax) ==
    LET len == t.length
        pre == IF idealMin <= len /\ len <= idealMax THEN 100
               ELSE IF min <= len /\ len <= max THEN 80
               ELSE IF len > max THEN 50
               ELSE IF 0 < len /\ len < min THEN 40
               ELSE 60
    IN  IF t.text \in {Null, EmptyString} THEN 0
        ELSE Within(pre - 10 * Len(t.issues))

\* the window a length falls in
WindowOf(len, min, max, idealMin, idealMax) ==
    IF idealMin <= len /\ len <= idealMax THEN "ideal"
    ELSE IF min <= len /\ len <= max THEN "acceptable"
    ELSE IF len > max THEN "over"
    ELSE IF 0 < len /\ len < min THEN "under"
    ELSE "remaining"

TitleWindow(len) == WindowOf(len, 30, 60, 50, 60)
MetaWindow(len) == WindowOf(len, 70, 160, 150, 160)

\* the PageAnalysis whose title is the text and issues of t with length len
WithTitle(a, t, len) ==
    [a EXCEPT !.title = [text |-> t.text, length |-> len, issues |-> t.issues]]

(* C14: a call on an unmodified PageAnalysis returns the same SeoScore as
   the call before it, whatever calls were made earlier and whatever the
   analysis holds in its own score field. *)
C14_Idempotent ==
    [][Scored => returned' = returned]_vars

\* a second call made on an analysis whose score analyzePage had filled in
C14_Witness ==
    /\ calls >= 2
    /\ Scored
    /\ analysis.score # ZeroScore
    /\ analysis.score = Result
    /\ Result.overall > 0

C16_TitleScore ==
    Scored =>
        Result.breakdown.title = LengthScoreAsClaimed(analysis.title, 30, 60, 50, 60)

\* the remaining case: a title text with a recorded length of 0
C16_Witness ==
    /\ Scored
    /\ analysis.title.text = SomeString
    /\ analysis.title.length = 0
    /\ Len(analysis.title.issues) = 1
    /\ Result.breakdown.title = 50

(* C17: the meta description score is what the title score is for a title
   with the same text presence and issues whose length falls in the
   corresponding window (min 70, max 160, ideal 150..160 for 30, 60,
   50..60). *)
C17_MetaLikeTitle ==
    Scored =>
        \A len \in TitleLengths :
            TitleWindow(len) = MetaWindow(analysis.metaDescription.length)
                => Result.breakdown.meta =
                       scoreTitleCategory(WithTitle(analysis, analysis.metaDescription, len))

\* a description of 69 characters: too long for a title, too short for a description
C17_Witness ==
    /\ Scored
    /\ analysis.metaDescription.text = SomeString
    /\ analysis.metaDescription.length = 69
    /\ Len(analysis.metaDescription.issues) = 1
    /\ Result.breakdown.meta = 30
    /\ \E len \in TitleLengths : TitleWindow(len) = "under"

\* 1 where the condition holds, 0 where it does not
Ind(b) == IF b THEN 1 ELSE 0

\* the H1 penalties the claim names, as the set of those that apply
H1PenaltiesApplied(h) ==
    {p \in {20, 40} : headingsPenalty(h) - 30 * Ind(h.totalHeadings = 0) = p}

\* the missing-alt tiers whose condition the summary meets
TiersMet(im) ==
    {p \in {10, 20, 40} :
        \/ p = 40 /\ 2 * im.missingAlt > im.total
        \/ p = 20 /\ 5 * im.missingAlt > im.total
        \/ p = 10 /\ im.missingAlt > 0}

\* the highest of a set of penalties, 0 for none
Highest(ps) == IF ps = {} THEN 0 ELSE CHOOSE p \in ps : \A q \in ps : q <= p

(* C18: the headings score is clamp(100 - (40 if h1Count = 0, else 20 if
   h1Count > 1) - (30 if totalHeadings = 0) - 10 per recorded heading
   issue); the 40 and the 20 are never both applied. *)
C18_HeadingsScore ==
    Scored =>
        LET h == analysis.headings
        IN  /\ Result.breakdown.headings =
                   Within(100 - (IF h.h1Count = 0 THEN 40
                                 ELSE IF h.h1Count > 1 THEN 20 ELSE 0)
                              - 30 * Ind(h.totalHeadings = 0)
                              - 10 * Len(h.issues))
            /\ Cardinality(H1PenaltiesApplied(h)) <= 1

\* several H1 headings and one recorded issue
C18_Witness ==
    /\ Scored
    /\ analysis.headings.h1Count > 1
    /\ analysis.headings.totalHeadings > 0
    /\ Len(analysis.headings.issues) = 1
    /\ Result.breakdown.headings = 70

(* C19: the images score is 100 when total = 0 whatever the recorded issues;
   otherwise clamp(100 - p - 5 per issue) with p the highest applicable of
   40 (ratio > 50%), 20 (ratio > 20%), 10 (ratio > 0), or 0, a single tier. *)
C19_ImagesScore ==
    Scored =>
        LET im == analysis.images
        IN  IF im.total = 0
            THEN Result.breakdown.images = 100
            ELSE /\ Result.breakdown.images =
                        Within(100 - Highest(TiersMet(im)) - 5 * Len(im.issues))
                 /\ missingAltPenalty(im.missingAlt, im.total) \in {0, 10, 20, 40}

\* more than half of the images miss their alt text: three tiers met, 40 taken off
C19_Witness ==
    /\ Scored
    /\ analysis.images.total > 0
    /\ 2 * analysis.images.missingAlt > analysis.images.total
    /\ TiersMet(analysis.images) = {10, 20, 40}
    /\ Len(analysis.images.issues) = 1
    /\ Result.breakdown.images = 55

(* C20: the links score is 100 - (20 if internal = 0) - (15 if internal +
   external > 150) - (30 if internal + external = 0); no link at all scores
   exactly 50; the over-maximum and zero-total penalties never apply
   together. *)
C20_LinksScore ==
    Scored =>
        LET l     == analysis.links
            total == l.internal + l.external
        IN  /\ Result.breakdown.links =
                   100 - 20 * Ind(l.internal = 0) - 15 * Ind(total > 150)
                       - 30 * Ind(total = 0)
            /\ total = 0 => Result.breakdown.links = 50
            /\ ~(total > 150 /\ total = 0)

\* a page without any link
C20_Witness ==
    /\ Scored
    /\ analysis.links.internal = 0
    /\ analysis.links.external = 0
    /\ Result.breakdown.links = 50

\* the content score the claims state for a content value (<<>>: none)
ContentAsClaimed(c) ==
    IF c = <<>> THEN 50
    ELSE 100 - (IF c[1].wordCount < 200 THEN 40
                ELSE IF c[1].wordCount < 200 THEN 20
                ELSE 0)

\* the deductions of 40 and 20 that the content score of a shows
ContentDeductions(a) ==
    IF a.content = <<>> THEN {}
    ELSE {p \in {20, 40} :
            \/ 100 - scoreContentCategory(a) = p
            \/ 100 - scoreContentCategory(a) = 60}

(* C21: the content score is 50 when no content analysis is present;
   otherwise 100, minus 40 below the thin-content threshold, else minus 20
   below the homepage minimum word count; never both deductions. *)
C21_ContentScore ==
    Scored =>
        /\ scoreContentCategory(analysis) = ContentAsClaimed(analysis.content)
        /\ Cardinality(ContentDeductions(analysis)) <= 1
        /\ Result.breakdown.technical =
               NearestHalfUp(scoreCanonicalCategory(analysis) * 10
                             + scoreOpenGraphCategory(analysis) * 5
                             + scoreRobotsCategory(analysis) * 10
                             + ContentAsClaimed(analysis.content) * 10, 35)

\* a thin page of 199 words on an otherwise perfect page: 100, 100, 100, 60
C21_Witness ==
    /\ Scored
    /\ analysis.content # <<>>
    /\ analysis.content[1].wordCount = 199
    /\ scoreContentCategory(analysis) = 60
    /\ Result.breakdown.technical = 89

\* the page with nothing on it, as the claim describes it
IsEmptyPage(a) ==
    /\ a.title.text = Null /\ a.title.issues = <<>>
    /\ a.metaDescription.text = Null /\ a.metaDescription.issues = <<>>
    /\ a.headings.h1Count = 0 /\ a.headings.totalHeadings = 0 /\ a.headings.issues = <<>>
    /\ a.images.total = 0 /\ a.images.issues = <<>>
    /\ a.links.internal = 0 /\ a.links.external = 0
    /\ a.canonical.url = Null /\ a.canonical.issues = <<>>
    /\ \A f \in {"title", "description", "image", "url", "type"} : a.openGraph[f] = Null
    /\ a.openGraph.issues = <<>>
    /\ ~a.robots.isIndexable
    /\ a.content = <<>>

(* C22: for the page with nothing on it the scorer returns title 0, meta 0,
   headings 30, images 100, links 50, technical 29 (from canonical 30, Open
   Graph 0, robots 20, content 50) and overall 30. *)
C22_EmptyPageScore ==
    (Scored /\ IsEmptyPage(analysis)) =>
        /\ Result.breakdown = [title |-> 0, meta |-> 0, headings |-> 30, images |-> 100,
                               links |-> 50, technical |-> 29]
        /\ Result.overall = 30
        /\ scoreCanonicalCategory(analysis) = 30
        /\ scoreOpenGraphCategory(analysis) = 0
        /\ scoreRobotsCategory(analysis) = 20
        /\ scoreContentCategory(analysis) = 50

\* the empty page has been scored
C22_Witness ==
    /\ Scored
    /\ IsEmptyPage(analysis)
    /\ Result.overall = 30
    /\ Result.breakdown.technical = 29

\* the links score before it is brought into [0,100]
RawLinks(l) ==
    100 - 20 * Ind(l.internal = 0) - 15 * Ind(l.internal + l.external > 150)
        - 30 * Ind(l.internal + l.external = 0)

(* C27: the links score is at least 50 and breakdown.technical at least 20
   (robots never below 20, content never below 50), so overall lies in
   [12,100]; the clamp of overall and the clamp of the links score never
   change the value they are applied to. *)
C27_LowerBounds ==
    Scored =>
        /\ Result.breakdown.links >= 50
        /\ Result.breakdown.technical >= 20
        /\ scoreRobotsCategory(analysis) >= 20
        /\ scoreContentCategory(analysis) >= 50
        /\ Result.overall \in 12..100
        /\ Result.overall = NearestHalfUp(BlendedSum(Result.breakdown), 100)
        /\ Result.breakdown.links = RawLinks(analysis.links)

\* every category at its lowest: links 50, technical 20, overall 12
C27_Witness ==
    /\ Scored
    /\ Result.breakdown =
           [title |-> 0, meta |-> 0, headings |-> 0, images |-> 0, links |-> 50,
            technical |-> 20]
    /\ Result.overall = 12

(* C28: with both content thresholds at 200 the 20-point deduction is
   unreachable: the content score is 50 without content, 60 below 200 words,
   100 from 200 words on, and never 80. *)
C28_NoTwentyDeduction ==
    Scored =>
        LET c == scoreContentCategory(analysis)
        IN  /\ c \in {50, 60, 100}
            /\ c # 80
            /\ c = 50 <=> analysis.content = <<>>
            /\ c = 60 <=> (analysis.content # <<>> /\ analysis.content[1].wordCount < 200)
            /\ c = 100 <=> (analysis.content # <<>> /\ analysis.content[1].wordCount >= 200)

\* exactly 200 words, where a deduction of 20 would begin if it could
C28_Witness ==
    /\ Scored
    /\ analysis.content # <<>>
    /\ analysis.content[1].wordCount = 200
    /\ scoreContentCategory(analysis) = 100

---------------------------------------------------------------------------
(* Further properties of the heading analysis                              *)

\* a flat list read backwards
Reversed(list) == [i \in 1..Len(list) |-> list[Len(list) + 1 - i]]

\* one observation for each level of a set, in descending order of level
RECURSIVE OnePerLevel(_)
OnePerLevel(levels) ==
    IF levels = {} THEN <<>>
    ELSE LET top == CHOOSE l \in levels : \A m \in levels : m <= l
         IN  << [tag |-> "h" \o ToString(top), text |-> << "x" >>, order |-> 1] >>
             \o OnePerLevel(levels \ {top})

\* other flat lists using the same set of levels as the one analysed
SameLevelLists == {Reversed(flatList), OnePerLevel(LevelsUsed)}

(* C26: the skipped_level issues depend only on the set of levels used, not
   on document order: lists using the same set of levels get the same
   skipped_level issues; h1 directly followed by h3 gives no skipped_level
   issue about H2 when an h2 occurs anywhere in the sequence. *)
C26_SkippedBySetOnly ==
    Done =>
        LET skipped == IssuesOfType("skipped_level")
        IN  /\ \A other \in SameLevelLists :
                   /\ {getHeadingLevel(other[i].tag) : i \in 1..Len(other)} = LevelsUsed
                   /\ SkippedLevelIssues(other) = skipped
            /\ ( /\ \E i \in 1..(Len(flatList) - 1) : ObsLevel(i) = 1 /\ ObsLevel(i + 1) = 3
                 /\ 2 \in LevelsUsed )
                   => \A k \in 1..Len(skipped) :
                          SubSeq(skipped[k].detail, 2, 3) # << "H", "2" >>

\* h1, h3, h2 in this order: a jump in the document and no skipped level
C26_Witness ==
    /\ Done
    /\ FlatTags = << "h1", "h3", "h2" >>
    /\ ~HasIssue("skipped_level")

\* the nodes reached from a list of node ids, depth first, parents first
RECURSIVE PreOrder(_)
PreOrder(ids) ==
    IF ids = <<>> THEN <<>>
    ELSE << Head(ids) >> \o PreOrder(nodes[Head(ids)].children) \o PreOrder(Tail(ids))

(* C30: the forest holds exactly one node per observation, with its tag,
   text and order; its pre-order depth-first traversal reproduces the flat
   sequence; levels strictly increase along every path from a root, so no
   path has more than 6 nodes. *)
C30_PreOrderIsFlatList ==
    Done =>
        LET pre == PreOrder(headingTree)
        IN  /\ Len(nodes) = Len(flatList)
            /\ Len(pre) = Len(flatList)
            /\ \A i \in 1..Len(pre) :
                   /\ nodes[pre[i]].tag = flatList[i].tag
                   /\ nodes[pre[i]].text = flatList[i].text
                   /\ nodes[pre[i]].order = flatList[i].order
            /\ \A id \in 1..Len(nodes) :
                   /\ ParentOf(id) # 0 => NodeLevel(ParentOf(id)) < NodeLevel(id)
                   /\ Depth(id) + 1 <= NodeLevel(id)
                   /\ Depth(id) + 1 <= 6

\* two roots, the first with a path of three nodes
C30_Witness ==
    /\ Done
    /\ Len(flatList) >= 4
    /\ Len(headingTree) = 2
    /\ \E id \in 1..Len(nodes) : Depth(id) = 2
    /\ Len(PreOrder(headingTree)) = Len(flatList)

\* the number of h1 elements the issue detector counted
CountedH1 == IF "h1" \in DOMAIN counts THEN counts["h1"] ELSE 0

\* the page has an h1 element without text
SomeH1Empty == \E i \in 1..Len(flatList) : flatList[i].tag = "h1" /\ flatList[i].text = <<>>

\* the page has h1 elements and none of them has text
OnlyEmptyH1 ==
    /\ CountedH1 > 0
    /\ \A i \in 1..Len(flatList) : flatList[i].tag = "h1" => flatList[i].text = <<>>

(* C25: the H1 count of analyzePage's heading summary (h1 elements with
   non-empty trimmed text) is at most counts['h1'] of the issue detector
   (all h1 elements), with equality exactly when no h1 is empty; a page
   whose only h1 elements are empty gets 'Missing H1 tag' and the zero-H1
   penalty from the one, empty_heading and no missing_h1 from the other. *)
C25_SummaryCountsNonEmptyH1 ==
    (Done /\ summary # <<>>) =>
        LET h == summary[1]
        IN  /\ h.h1Count <= CountedH1
            /\ h.h1Count = CountedH1 <=> ~SomeH1Empty
            /\ OnlyEmptyH1 =>
                   /\ h.h1Count = 0
                   /\ h.issues = << << "Missing H1 tag" >> >>
                   /\ scoreHeadingsCategory([headings |-> h]) = 100 - 40 - 10
                   /\ HasIssue("empty_heading")
                   /\ ~HasIssue("missing_h1")

\* a page whose single h1 is empty, analysed both ways
C25_Witness ==
    /\ Done
    /\ summary # <<>>
    /\ OnlyEmptyH1
    /\ CountedH1 = 1
    /\ summary[1].h1Count = 0
    /\ HasIssue("empty_heading")

\* the issue types of the heading analysis
IssueTypes ==
    {"missing_h1", "multiple_h1", "empty_heading", "skipped_level", "no_h1_first",
     "keyword_missing_h1"}

\* the issues identifyIssues returned: all but the keyword issue added after it
IdentifiedIssues == SelectSeq(issues, LAMBDA x : x.type # "keyword_missing_h1")

(* C23: buildHeadingTree, countByLevel, identifyIssues and
   checkKeywordPresence return a result for every flat sequence of h1..h6
   observations: the empty sequence gives the empty forest, empty counts and
   the issue list [missing_h1]; a single observation and sequences without
   h1 give results too; calculateSeoScore returns a SeoScore for every
   PageAnalysis, with or without content. *)
C23_ResultsForEveryInput ==
    /\ Done =>
        /\ Len(nodes) = Len(flatList)
        /\ \A k \in 1..Len(headingTree) : headingTree[k] \in 1..Len(nodes)
        /\ DOMAIN counts \subseteq Tags
        /\ \A t \in DOMAIN counts : counts[t] \in 1..Len(flatList)
        /\ \A k \in 1..Len(issues) : issues[k].type \in IssueTypes
        /\ Truthy(targetKeyword) =>
               /\ keywordPresence # <<>>
               /\ keywordPresence[1].inH1 \in BOOLEAN
               /\ keywordPresence[1].count \in 0..Len(flatList)
        /\ flatList = <<>> =>
               /\ headingTree = <<>>
               /\ nodes = <<>>
               /\ DOMAIN counts = {}
               /\ Len(IdentifiedIssues) = 1
               /\ IdentifiedIssues[1].type = "missing_h1"
        /\ Len(flatList) = 1 =>
               /\ headingTree = << 1 >>
               /\ DOMAIN counts = {flatList[1].tag}
        /\ (Len(flatList) > 0 /\ H1Observations = 0) =>
               /\ Len(headingTree) >= 1
               /\ IdentifiedIssues[1].type = "missing_h1"
    /\ calls > 0 =>
        /\ Scored
        /\ DOMAIN Result = {"overall", "breakdown"}
        /\ Result.overall \in Nat
        /\ \A n \in BreakdownNames : Result.breakdown[n] \in Nat

\* the empty sequence analysed: no tree, no counts, one issue
C23_Witness ==
    /\ Done
    /\ flatList = <<>>
    /\ headingTree = <<>>
    /\ DOMAIN counts = {}
    /\ Len(IdentifiedIssues) = 1
    /\ IdentifiedIssues[1].type = "missing_h1"

---------------------------------------------------------------------------
(* The token bucket rate limiter (utils/rate-limiter.ts)                   *)

\* largest maxRequests a limiter is built with
MaxRequests == 2

\* longest period of a limiter, in milliseconds
MaxPeriodMs == 2

\* number of acquire() calls made on the limiter
NumCallers == 3

\* the clock is followed for this many milliseconds
MaxClock == 3

Callers == 1..NumCallers

\* new RateLimiter(maxRequests, periodSeconds) built at time now (lines
\* 10-15), with periodMs = 1000 * periodSeconds.  The token count is a
\* fraction: it is kept in units of 1/periodMs token, in which one
\* millisecond refills maxRequests units (refillRate = maxRequests /
\* periodSeconds tokens per second) and one token is periodMs units.
RateLimiter(maxRequests, periodMs, now) ==
    [ tokens     |-> maxRequests * periodMs,
      lastRefill |-> now,
      maxTokens  |-> maxRequests,
      periodMs   |-> periodMs ]

\* the number 1 of "tokens >= 1" and "tokens -= 1", in the units of tokens
OneToken(l) == l.periodMs

\* refill() at time now (lines 32-37)
refill(l, now) ==
    LET elapsedMs == now - l.lastRefill
    IN  [l EXCEPT !.tokens = Min(l.maxTokens * OneToken(l), l.tokens + elapsedMs * l.maxTokens),
                  !.lastRefill = now]

\* Math.ceil((1 - this.tokens) / this.refillRate * 1000) (line 26)
waitTime(l) == ((OneToken(l) - l.tokens) + l.maxTokens - 1) \div l.maxTokens

LimiterInit ==
    /\ pc = "idle"
    /\ targetKeyword = <<>>
    /\ flatList = <<>>
    /\ order = 0
    /\ counts = [t \in {} |-> 0]
    /\ nodes = <<>>
    /\ headingTree = <<>>
    /\ keywordPresence = <<>>
    /\ issues = <<>>
    /\ document = <<>>
    /\ summary = <<>>
    /\ analysis = <<>>
    /\ returned = <<>>
    /\ calls = 0
    /\ NoRequests
    /\ clock = 0
    /\ \E m \in 1..MaxRequests, p \in 1..MaxPeriodMs : limiter = RateLimiter(m, p, 0)
    /\ callers = [c \in Callers |-> [pc |-> "idle", wakeAt |-> 0]]

\* acquire() up to its return or its await (lines 17-27)
Acquire(c) ==
    /\ callers[c].pc = "idle"
    /\ LET l == refill(limiter, clock)
       IN  IF l.tokens >= OneToken(l)
           THEN /\ limiter' = [l EXCEPT !.tokens = @ - OneToken(l)]
                /\ callers' = [callers EXCEPT ![c].pc = "done"]
           ELSE /\ limiter' = l
                /\ callers' = [callers EXCEPT
                                  ![c] = [pc |-> "waiting", wakeAt |-> clock + waitTime(l)]]
    /\ UNCHANGED <<clock, headingVars, scoreVars, requestVars>>

\* the timer of a waiting acquire() has fired: the rest of it (lines 28-29)
Resume(c) ==
    /\ callers[c].pc = "waiting"
    /\ clock >= callers[c].wakeAt
    /\ LET l == refill(limiter, clock)
       IN  limiter' = [l EXCEPT !.tokens = @ - OneToken(l)]
    /\ callers' = [callers EXCEPT ![c].pc = "done"]
    /\ UNCHANGED <<clock, headingVars, scoreVars, requestVars>>

\* a millisecond passes
Tick ==
    /\ clock < MaxClock
    /\ clock' = clock + 1
    /\ UNCHANGED <<limiter, callers, headingVars, scoreVars, requestVars>>

LimiterNext ==
    \/ \E c \in Callers : Acquire(c)
    \/ \E c \in Callers : Resume(c)
    \/ Tick

SpecLimiter == LimiterInit /\ [][LimiterNext]_vars

\* the acquire() calls that have returned
Completed == {c \in Callers : callers[c].pc = "done"}

(* C29: for a RateLimiter built with maxRequests >= 1, in every state
   reachable by interleaved acquire() calls and clock advances,
   0 <= tokens <= maxTokens; two callers that both waited do not drive
   tokens below zero, so no more calls complete than the tokens the bucket
   started with and was refilled with. *)
C29_TokensInRange ==
    /\ limiter.tokens >= 0
    /\ limiter.tokens <= limiter.maxTokens * OneToken(limiter)
    /\ Cardinality(Completed) * OneToken(limiter)
           <= limiter.maxTokens * OneToken(limiter) + clock * limiter.maxTokens

\* two callers waited for the same token and both have returned
C29_Witness ==
    /\ Cardinality(Completed) = 3
    /\ limiter.maxTokens = 1
    /\ limiter.tokens < 0

---------------------------------------------------------------------------
(* Several requests in flight: invocations of analyzeHeadings interleave   *)
(* at the await of httpGet (heading-analyzer.ts line 141), and             *)
(* calculateSeoScore runs to completion between any two of their steps.    *)
(* Every invocation allocates its nodes in the one heap of the process.    *)

NumRequests == 2

Requests == 1..NumRequests

\* the heading elements of the pages the requests fetch
PageDocuments ==
    { <<>>,
      << <<"H1", <<"c">>>> >>,
      << <<"H2", <<" ", "\t">>>>, <<"H1", <<" ", "b", " ", "\t", "A">>>> >>,
      << <<"H1", <<"c">>>>, <<"H3", <<"b", "\t", "A">>>>, <<"H2", <<"b", " ", " ", "A", " ">>>> >> }

\* analyzeHeadings(url, targetKeyword) before it is called
HeadingRequests ==
    { [kind |-> "headings", pc |-> "new", document |-> doc, targetKeyword |-> kw,
       analysis |-> <<>>, result |-> <<>>] :
          doc \in PageDocuments, kw \in { <<>>, << <<"A">> >> } }

\* calculateSeoScore(analysis) before it is called
ScoreRequests ==
    { [kind |-> "score", pc |-> "new", document |-> <<>>, targetKeyword |-> <<>>,
       analysis |-> << a >>, result |-> <<>>] : a \in {WorstPage, BestPage} }

\* the ids of the nodes of a heap that are no node's child
RootsOf(heapNow) ==
    SelectSeq([i \in 1..Len(heapNow) |-> i],
              LAMBDA id : \A p \in 1..Len(heapNow) :
                              \A k \in 1..Len(heapNow[p].children) :
                                  heapNow[p].children[k] # id)

\* the tree array kept at module level: a call appends to the roots of
\* the calls before it
buildHeadingTreeSharedTree(heapNow, list) ==
    LET st == BuildLoop([heap |-> heapNow, tree |-> RootsOf(heapNow), stack |-> <<>>], list)
    IN  [heap |-> st.heap, tree |-> st.tree]

\* buildHeadingTree called while the heap already holds heapNow: tree and
\* stack are fresh arrays of the call (lines 18-19)
buildHeadingTreeIn(heapNow, list) ==
    LET st == BuildLoop([heap |-> heapNow, tree |-> <<>>, stack |-> <<>>], list)
    IN  [heap |-> st.heap, tree |-> st.tree]

\* the .each callback applied to every heading element (lines 144-152)
scanDocument(doc) ==
    [i \in 1..Len(doc) |->
        [tag |-> tagToLowerCase(doc[i][1]),
         text |-> trim(collapseWhitespace(doc[i][2])),
         order |-> i]]

ConcurrentInit ==
    /\ pc = "idle"
    /\ targetKeyword = <<>>
    /\ flatList = <<>>
    /\ order = 0
    /\ counts = <<>>
    /\ nodes = <<>>
    /\ headingTree = <<>>
    /\ keywordPresence = <<>>
    /\ issues = <<>>
    /\ document = <<>>
    /\ summary = <<>>
    /\ analysis = WorstPage
    /\ returned = <<>>
    /\ calls = 0
    /\ NoLimiter
    /\ objects = <<>>
    /\ requests \in [Requests -> HeadingRequests \cup ScoreRequests]

\* analyzeHeadings up to its await (lines 135-141)
CallAnalyzeHeadings(r) ==
    /\ requests[r].kind = "headings"
    /\ requests[r].pc = "new"
    /\ requests' = [requests EXCEPT ![r].pc = "awaiting"]
    /\ UNCHANGED <<objects, headingVars, scoreVars, limiterVars>>

\* the response has arrived: the rest of analyzeHeadings (lines 142-178)
ResumeAnalyzeHeadings(r) ==
    /\ requests[r].kind = "headings"
    /\ requests[r].pc = "awaiting"
    /\ LET list     == scanDocument(requests[r].document)
           keyword  == requests[r].targetKeyword
           cnt      == countByLevel(list)
           built    == buildHeadingTreeIn(objects, list)
           found    == identifyIssues(list, cnt)
           presence == IF Truthy(keyword)
                       THEN << checkKeywordPresence(list, keyword[1]) >>
                       ELSE <<>>
       IN  /\ objects' = built.heap
           /\ requests' = [requests EXCEPT
                  ![r].pc = "done",
                  ![r].result =
                      << [ headingTree     |-> built.tree,
                           flatList        |-> list,
                           counts          |-> cnt,
                           keywordPresence |-> presence,
                           issues          |-> IF Truthy(keyword) /\ Len(presence) = 1
                                                  /\ ~presence[1].inH1
                                               THEN Append(found, KeywordMissingIssue(keyword[1]))
                                               ELSE found ] >>]
    /\ UNCHANGED <<headingVars, scoreVars, limiterVars>>

\* calculateSeoScore: synchronous, from call to return (scoring.ts lines 150-193)
CallCalculateSeoScore(r) ==
    /\ requests[r].kind = "score"
    /\ requests[r].pc = "new"
    /\ requests' = [requests EXCEPT
           ![r].pc = "done",
           ![r].analysis = << argumentAfterCall(requests[r].analysis[1]) >>,
           ![r].result = << calculateSeoScore(requests[r].analysis[1]) >>]
    /\ UNCHANGED <<objects, headingVars, scoreVars, limiterVars>>

ConcurrentNext ==
    \/ \E r \in Requests : CallAnalyzeHeadings(r)
    \/ \E r \in Requests : ResumeAnalyzeHeadings(r)
    \/ \E r \in Requests : CallCalculateSeoScore(r)

SpecConcurrent == ConcurrentInit /\ [][ConcurrentNext]_vars

\* the requests of a kind that have returned
Returned(kind) == {r \in DOMAIN requests : requests[r].kind = kind /\ requests[r].pc = "done"}

\* a forest read through a heap, parents first: tag, text, order and depth
\* of every node, whatever the addresses of the nodes are
RECURSIVE ForestShape(_, _, _)
ForestShape(heapNow, ids, depth) ==
    IF ids = <<>> THEN <<>>
    ELSE LET n == heapNow[Head(ids)]
         IN  << [tag |-> n.tag, text |-> n.text, order |-> n.order, depth |-> depth] >>
             \o ForestShape(heapNow, n.children, depth + 1)
             \o ForestShape(heapNow, Tail(ids), depth)

\* what analyzeHeadings returns for a request that runs with no other
AloneHeadings(req) ==
    LET list     == scanDocument(req.document)
        cnt      == countByLevel(list)
        built    == buildHeadingTree(list)
        found    == identifyIssues(list, cnt)
        presence == IF Truthy(req.targetKeyword)
                    THEN << checkKeywordPresence(list, req.targetKeyword[1]) >>
                    ELSE <<>>
    IN  [ shape           |-> ForestShape(built.heap, built.tree, 0),
          flatList        |-> list,
          counts          |-> cnt,
          keywordPresence |-> presence,
          issues          |-> IF Truthy(req.targetKeyword) /\ Len(presence) = 1
                                 /\ ~presence[1].inH1
                              THEN Append(found, KeywordMissingIssue(req.targetKeyword[1]))
                              ELSE found ]

\* the overall score of the two pages when each is scored with no other
\* request in flight
AloneOverall(a) == IF IsEmptyPage(a) THEN 30 ELSE 100

(* C24: when several analyzeHeadings and calculateSeoScore invocations are
   interleaved at their suspension points, each invocation's result (tree,
   flat list, counts, issues, score) equals the result of running it alone
   on the same input: no stack, forest, counts, issue list or category
   table is shared between invocations. *)
C24_ResultAsAlone ==
    /\ \A r \in Returned("headings") :
           LET res   == requests[r].result[1]
               alone == AloneHeadings(requests[r])
           IN  /\ ForestShape(objects, res.headingTree, 0) = alone.shape
               /\ res.flatList = alone.flatList
               /\ res.counts = alone.counts
               /\ res.keywordPresence = alone.keywordPresence
               /\ res.issues = alone.issues
    /\ \A r \in Returned("score") :
           LET res == requests[r].result[1]
               a   == requests[r].analysis[1]
           IN  /\ res = calculateSeoScore(a)
               /\ res.overall = AloneOverall(a)
               /\ a \in {WorstPage, BestPage}

\* both requests are heading analyses and have returned; the first one
\* resumed after the second had allocated its nodes, and built a forest of
\* three nodes behind them
C24_Witness ==
    /\ Returned("headings") = Requests
    /\ Len(requests[1].result[1].headingTree) >= 1
    /\ requests[1].result[1].headingTree[1] > 2
    /\ Len(requests[1].result[1].flatList) = 3
    /\ Len(objects) > 3

============================================================================
